---- MODULE Spec2Model ----
(***************************************************************************)
(* Model of meld-port.py: the limit guard (check_file_limits), the line    *)
(* and character aligners (compute_diff, compute_inline_diff, both built   *)
(* on difflib.SequenceMatcher with its default arguments), the inline      *)
(* highlighter (format_line_with_inline_diff) and the line projector       *)
(* (format_lines).                                                         *)
(*                                                                         *)
(* Characters are code points (naturals); a string is a sequence of code   *)
(* points; a list of lines is a sequence of strings.  Indices into Python  *)
(* sequences are kept 0-based as in the source, so element i of a Python   *)
(* sequence s is s[i + 1] here, and a range [lo, hi) is half open.         *)
(***************************************************************************)
EXTENDS Integers, Sequences, FiniteSets, TLC

VARIABLES
    pc,             \* the call that has returned last
    text_a,         \* compute_diff / compute_inline_diff: first argument
    text_b,         \* compute_diff / compute_inline_diff: second argument
    opcodes,        \* compute_inline_diff: the returned opcodes
    line_opcodes,   \* compute_diff: matcher.get_opcodes() before the filter
    chunks,         \* compute_diff: the returned chunks
    left_content,   \* generate_html: format_lines(lines_a, lines_b, chunks, True)
    right_content,  \* generate_html: format_lines(lines_b, lines_a, chunks, False)
    text,           \* check_file_limits: the text
    verdict,        \* check_file_limits: the outcome
    line,           \* format_line_with_inline_diff: line
    other_line,     \* format_line_with_inline_diff: other_line
    is_changed,     \* format_line_with_inline_diff: is_changed
    formatted       \* format_line_with_inline_diff: what the call did and returned

vars == <<pc, text_a, text_b, opcodes, line_opcodes, chunks, left_content,
          right_content, text, verdict, line, other_line, is_changed, formatted>>

\* chunk_tag = None
NoTag == "None"

(***************************************************************************)
(* Generic helpers.                                                        *)
(***************************************************************************)
Range(s) == {s[i] : i \in 1..Len(s)}

Min(S) == CHOOSE x \in S : \A y \in S : x <= y

Max(S) == CHOOSE x \in S : \A y \in S : x >= y

\* The elements of a set of integers within lo..hi, ascending (divide and
\* conquer, so that the depth of evaluation is logarithmic in hi - lo).
RECURSIVE Ascending(_, _, _)
Ascending(S, lo, hi) ==
    IF lo > hi \/ S \cap (lo..hi) = {} THEN <<>>
    ELSE IF lo = hi THEN <<lo>>
    ELSE LET mid == (lo + hi) \div 2
         IN  Ascending(S, lo, mid) \o Ascending(S, mid + 1, hi)

\* s * n of Python for a one-element s.
Rep(x, n) == [i \in 1..n |-> x]

\* The element of a one-element set.  Only({e(x) : x \in {v}}) is e(v) with the
\* local x assigned once, as an assignment `x = v` followed by e(x) is.
Only(S) == CHOOSE x \in S : TRUE

(***************************************************************************)
(* difflib.SequenceMatcher(None, a, b): isjunk is None, autojunk is left   *)
(* at its default (True).                                                  *)
(***************************************************************************)

\* __chain_b: with autojunk, a b of at least AutojunkMinLen elements has its
\* "popular" elements (more than n // 100 + 1 occurrences) dropped from b2j.
AutojunkMinLen == 200

AutojunkDivisor == 100

Popular(b) ==
    LET n == Len(b)
        ntest == n \div AutojunkDivisor + 1
    IN  IF n >= AutojunkMinLen
        THEN {x \in Range(b) : Cardinality({j \in 1..n : b[j] = x}) > ntest}
        ELSE {}

\* b2j.get(a[i], nothing) restricted by the `j < blo: continue` and
\* `j >= bhi: break` tests of find_longest_match: the indices j of b in
\* [blo, bhi) holding a[i], none when a[i] is popular.
B2J(a, b, popular, i, blo, bhi) ==
    IF a[i + 1] \in popular THEN {}
    ELSE {j \in blo..(bhi - 1) : b[j + 1] = a[i + 1]}

\* j2len.get(j, 0); the dictionary j2len is kept as its set of <<j, k>> items.
J2LenGet(j2len, j) ==
    IF \E p \in j2len : p[1] = j THEN (CHOOSE p \in j2len : p[1] = j)[2] ELSE 0

\* One iteration of `for i in range(alo, ahi)` of find_longest_match.
\* The inner loop visits the js ascending, sets newj2len[j] = j2len.get(j-1, 0)
\* + 1 and moves best on k > bestsize only: it ends on the first j that
\* reaches the largest k, if that k exceeds the bestsize it started with.
LongestMatchStep(a, b, popular, st, i, blo, bhi) ==
    LET js == B2J(a, b, popular, i, blo, bhi)
        newj2len == {<<j, J2LenGet(st.j2len, j - 1) + 1>> : j \in js}
    IN  IF js = {} THEN [st EXCEPT !.j2len = newj2len]
        ELSE LET kmax == Max({p[2] : p \in newj2len})
                 jmax == Min({p[1] : p \in {q \in newj2len : q[2] = kmax}})
             IN  IF kmax > st.bestsize
                 THEN [besti |-> i - kmax + 1, bestj |-> jmax - kmax + 1,
                       bestsize |-> kmax, j2len |-> newj2len]
                 ELSE [st EXCEPT !.j2len = newj2len]

\* `for i in range(lo, hi)`: the iterations in order, split in halves.
RECURSIVE LongestMatchLoop(_, _, _, _, _, _, _, _)
LongestMatchLoop(a, b, popular, st, lo, hi, blo, bhi) ==
    IF lo >= hi THEN st
    ELSE IF hi - lo = 1 THEN LongestMatchStep(a, b, popular, st, lo, blo, bhi)
    ELSE LET mid == (lo + hi) \div 2
         IN  Only({LongestMatchLoop(a, b, popular, half, mid, hi, blo, bhi) :
                   half \in {LongestMatchLoop(a, b, popular, st, lo, mid, blo, bhi)}})

\* The two `while ... not isbjunk(...) and a[..] == b[..]` loops that extend the
\* match over the elements b2j does not index (bjunk is empty: isjunk is None,
\* so the two junk loops never run).  Each loop runs until its first failure.
ExtendBack(a, b, m, alo, blo) ==
    LET room == IF m.besti - alo < m.bestj - blo THEN m.besti - alo ELSE m.bestj - blo
        fail == {s \in 1..room : a[m.besti - s + 1] # b[m.bestj - s + 1]}
        steps == IF fail = {} THEN room ELSE Min(fail) - 1
    IN  [besti |-> m.besti - steps, bestj |-> m.bestj - steps,
         bestsize |-> m.bestsize + steps]

\* Mutant: the forward loop never runs, so a match is not carried over the
\* elements b2j leaves out.
ExtendForwardSkipped(a, b, m, ahi, bhi) == m

ExtendForward(a, b, m, ahi, bhi) ==
    LET ra == ahi - (m.besti + m.bestsize)
        rb == bhi - (m.bestj + m.bestsize)
        room == IF ra < rb THEN ra ELSE rb
        fail == {s \in 1..room : a[m.besti + m.bestsize + s] # b[m.bestj + m.bestsize + s]}
        steps == IF fail = {} THEN room ELSE Min(fail) - 1
    IN  [m EXCEPT !.bestsize = m.bestsize + steps]

find_longest_match(a, b, popular, alo, ahi, blo, bhi) ==
    LET st0 == [besti |-> alo, bestj |-> blo, bestsize |-> 0, j2len |-> {}]
        found == {[besti |-> st.besti, bestj |-> st.bestj, bestsize |-> st.bestsize] :
                  st \in {LongestMatchLoop(a, b, popular, st0, alo, ahi, blo, bhi)}}
        back == {ExtendBack(a, b, m0, alo, blo) : m0 \in found}
        forward == {ExtendForward(a, b, m1, ahi, bhi) : m1 \in back}
    IN  Only({<<m2.besti, m2.bestj, m2.bestsize>> : m2 \in forward})

\* get_matching_blocks, the `while queue` loop: queue.pop() takes the last
\* entry; the region before the match is pushed first, the one after it last.
RECURSIVE MatchQueue(_, _, _, _, _)
MatchQueue(a, b, popular, queue, blocks) ==
    IF queue = <<>> THEN blocks
    ELSE LET q == queue[Len(queue)]
             rest == SubSeq(queue, 1, Len(queue) - 1)
             alo == q[1]
             ahi == q[2]
             blo == q[3]
             bhi == q[4]
             before(i, j) == IF alo < i /\ blo < j THEN <<(<<alo, i, blo, j>>)>> ELSE <<>>
             after(i, j, k) == IF i + k < ahi /\ j + k < bhi
                               THEN <<(<<i + k, ahi, j + k, bhi>>)>> ELSE <<>>
         IN  Only({IF x[3] # 0
                   THEN MatchQueue(a, b, popular,
                                   rest \o before(x[1], x[2]) \o after(x[1], x[2], x[3]),
                                   Append(blocks, x))
                   ELSE MatchQueue(a, b, popular, rest, blocks) :
                   x \in {find_longest_match(a, b, popular, alo, ahi, blo, bhi)}})

\* Tuple order of Python on (i, j, k).
TupleLess(x, y) ==
    \/ x[1] < y[1]
    \/ x[1] = y[1] /\ x[2] < y[2]
    \/ x[1] = y[1] /\ x[2] = y[2] /\ x[3] < y[3]

\* matching_blocks.sort()
SortBlocks(blocks) ==
    LET S == Range(blocks)
    IN  [r \in 1..Cardinality(S) |->
            CHOOSE x \in S : Cardinality({y \in S : TupleLess(y, x)}) = r - 1]

\* The loop that collapses adjacent blocks; acc is <<i1, j1, k1>>.
RECURSIVE MergeAdjacent(_, _, _, _)
MergeAdjacent(blocks, n, acc, non_adjacent) ==
    IF n > Len(blocks)
    THEN IF acc[3] # 0 THEN Append(non_adjacent, acc) ELSE non_adjacent
    ELSE LET x == blocks[n]
         IN  IF acc[1] + acc[3] = x[1] /\ acc[2] + acc[3] = x[2]
             THEN MergeAdjacent(blocks, n + 1, <<acc[1], acc[2], acc[3] + x[3]>>,
                                non_adjacent)
             ELSE MergeAdjacent(blocks, n + 1, x,
                                IF acc[3] # 0 THEN Append(non_adjacent, acc)
                                ELSE non_adjacent)

\* Mutant: the closing (la, lb, 0) block is not appended.
get_matching_blocks_unclosed(a, b) ==
    Only({MergeAdjacent(sorted, 1, <<0, 0, 0>>, <<>>) :
          sorted \in {SortBlocks(found) :
                      found \in {MatchQueue(a, b, Popular(b),
                                            <<(<<0, Len(a), 0, Len(b)>>)>>, <<>>)}}})

get_matching_blocks(a, b) ==
    LET la == Len(a)
        lb == Len(b)
        sorted == {SortBlocks(found) :
                   found \in {MatchQueue(a, b, Popular(b), <<(<<0, la, 0, lb>>)>>, <<>>)}}
    IN  Only({Append(MergeAdjacent(blocks, 1, <<0, 0, 0>>, <<>>), <<la, lb, 0>>) :
              blocks \in sorted})

\* Mutant: the `elif` branches carry each other's tag.
RECURSIVE OpcodeLoopSwapped(_, _, _, _, _)
OpcodeLoopSwapped(blocks, n, i, j, answer) ==
    IF n > Len(blocks) THEN answer
    ELSE LET ai == blocks[n][1]
             bj == blocks[n][2]
             size == blocks[n][3]
             tag == IF i < ai /\ j < bj THEN "replace"
                    ELSE IF i < ai THEN "insert"
                    ELSE IF j < bj THEN "delete"
                    ELSE ""
             gap == IF tag # "" THEN <<(<<tag, i, ai, j, bj>>)>> ELSE <<>>
             eq == IF size # 0 THEN <<(<<"equal", ai, ai + size, bj, bj + size>>)>>
                   ELSE <<>>
         IN  OpcodeLoopSwapped(blocks, n + 1, ai + size, bj + size, answer \o gap \o eq)

\* get_opcodes: the loop over the matching blocks; an opcode is
\* <<tag, i1, i2, j1, j2>>.
RECURSIVE OpcodeLoop(_, _, _, _, _)
OpcodeLoop(blocks, n, i, j, answer) ==
    IF n > Len(blocks) THEN answer
    ELSE LET ai == blocks[n][1]
             bj == blocks[n][2]
             size == blocks[n][3]
             tag == IF i < ai /\ j < bj THEN "replace"
                    ELSE IF i < ai THEN "delete"
                    ELSE IF j < bj THEN "insert"
                    ELSE ""
             gap == IF tag # "" THEN <<(<<tag, i, ai, j, bj>>)>> ELSE <<>>
             eq == IF size # 0 THEN <<(<<"equal", ai, ai + size, bj, bj + size>>)>>
                   ELSE <<>>
         IN  OpcodeLoop(blocks, n + 1, ai + size, bj + size, answer \o gap \o eq)

get_opcodes(a, b) ==
    Only({OpcodeLoop(blocks, 1, 0, 0, <<>>) : blocks \in {get_matching_blocks(a, b)}})

(***************************************************************************)
(* str.splitlines(): the line boundaries of Python.                        *)
(***************************************************************************)
LF == 10

CR == 13

LineBreaks == {LF, 11, 12, CR, 28, 29, 30, 133, 8232, 8233}

\* The positions (1-based) at which a line boundary ends: "\r\n" is one
\* boundary, ending on its "\n".
BreakEnds(s) ==
    {p \in 1..Len(s) : s[p] \in LineBreaks
                        /\ ~(s[p] = CR /\ p < Len(s) /\ s[p + 1] = LF)}

splitlines(s) ==
    LET ends == Ascending(BreakEnds(s), 1, Len(s))
        ne == Len(ends)
        last == IF ne = 0 THEN 0 ELSE ends[ne]
        from(r) == IF r = 1 THEN 1 ELSE ends[r - 1] + 1
        upto(r) == LET e == ends[r]
                   IN  IF s[e] = LF /\ e > from(r) /\ s[e - 1] = CR THEN e - 2 ELSE e - 1
        whole == [r \in 1..ne |-> SubSeq(s, from(r), upto(r))]
    IN  IF last < Len(s) THEN Append(whole, SubSeq(s, last + 1, Len(s))) ELSE whole

(***************************************************************************)
(* compute_diff and compute_inline_diff.                                   *)
(***************************************************************************)
DiffChunk(tag, start_a, end_a, start_b, end_b) ==
    [tag |-> tag, start_a |-> start_a, end_a |-> end_a,
     start_b |-> start_b, end_b |-> end_b]

\* The opcodes compute_diff iterates over.
LineOpcodes(ta, tb) ==
    Only({get_opcodes(la, lb) : la \in {splitlines(ta)}, lb \in {splitlines(tb)}})

\* Mutant: the `tag != 'equal'` test is missing.
RECURSIVE KeepEveryOpcode(_, _)
KeepEveryOpcode(ops, n) ==
    IF n > Len(ops) THEN <<>>
    ELSE LET o == ops[n]
         IN  <<DiffChunk(o[1], o[2], o[3], o[4], o[5])>> \o KeepEveryOpcode(ops, n + 1)

\* `if tag != 'equal': chunks.append(DiffChunk(...))`, in order.
RECURSIVE FilterChunks(_, _)
FilterChunks(ops, n) ==
    IF n > Len(ops) THEN <<>>
    ELSE LET o == ops[n]
         IN  (IF o[1] # "equal" THEN <<DiffChunk(o[1], o[2], o[3], o[4], o[5])>>
              ELSE <<>>) \o FilterChunks(ops, n + 1)

compute_diff(ta, tb) == Only({FilterChunks(ops, 1) : ops \in {LineOpcodes(ta, tb)}})

compute_inline_diff(text1, text2) == get_opcodes(text1, text2)

(***************************************************************************)
(* html.escape(s) (quote=True): five str.replace calls, "&" first.         *)
(***************************************************************************)
\* s[lo..hi] with every ch replaced by rep (in halves; a part without ch is
\* copied whole).
RECURSIVE ReplaceIn(_, _, _, _, _)
ReplaceIn(s, lo, hi, ch, rep) ==
    IF lo > hi THEN <<>>
    ELSE IF \A p \in lo..hi : s[p] # ch THEN SubSeq(s, lo, hi)
    ELSE IF lo = hi THEN rep
    ELSE LET mid == (lo + hi) \div 2
         IN  ReplaceIn(s, lo, mid, ch, rep) \o ReplaceIn(s, mid + 1, hi, ch, rep)

\* s.replace(ch, rep) for a one-character ch.
Replace(s, ch, rep) == ReplaceIn(s, 1, Len(s), ch, rep)

Amp == <<38, 97, 109, 112, 59>>             \* "&amp;"

Lt == <<38, 108, 116, 59>>                  \* "&lt;"

Gt == <<38, 103, 116, 59>>                  \* "&gt;"

Quot == <<38, 113, 117, 111, 116, 59>>      \* "&quot;"

Apos == <<38, 35, 120, 50, 55, 59>>         \* "&#x27;"

escape(s) ==
    Replace(Replace(Replace(Replace(Replace(s, 38, Amp), 60, Lt), 62, Gt), 34, Quot),
            39, Apos)

(***************************************************************************)
(* format_line_with_inline_diff.                                           *)
(***************************************************************************)
INLINE_HIGHLIGHT_LIMIT == 20 * 1024

Nbsp == <<38, 110, 98, 115, 112, 59>>       \* "&nbsp;"

\* '<span class="inline-diff">'
SpanOpen ==
    <<60, 115, 112, 97, 110, 32, 99, 108, 97, 115, 115, 61, 34, 105, 110, 108, 105,
      110, 101, 45, 100, 105, 102, 102, 34, 62>>

SpanClose == <<60, 47, 115, 112, 97, 110, 62>>     \* "</span>"

\* `html.escape(line) if line else "&nbsp;"`
PlainLine(ln) == IF ln # <<>> THEN escape(ln) ELSE Nbsp

\* line[i1:i2]
Slice(s, i1, i2) == SubSeq(s, i1 + 1, i2)

\* Mutant: only 'replace' is rendered in a marker, 'delete' is skipped.
PieceReplaceOnly(ln, op) ==
    IF op[1] = "equal" THEN escape(Slice(ln, op[2], op[3]))
    ELSE IF op[1] = "replace"
    THEN SpanOpen \o escape(Slice(ln, op[2], op[3])) \o SpanClose
    ELSE <<>>

\* The loop over the opcodes: what each appends to `result` (nothing for an
\* insert), and whether it appends at all.
Appends(op) == op[1] \in {"equal", "replace", "delete"}

Piece(ln, op) ==
    IF op[1] = "equal" THEN escape(Slice(ln, op[2], op[3]))
    ELSE IF op[1] \in {"replace", "delete"}
    THEN SpanOpen \o escape(Slice(ln, op[2], op[3])) \o SpanClose
    ELSE <<>>

RECURSIVE JoinPieces(_, _, _)
JoinPieces(ln, ops, n) ==
    IF n > Len(ops) THEN <<>> ELSE Piece(ln, ops[n]) \o JoinPieces(ln, ops, n + 1)

\* `''.join(result) if result else "&nbsp;"`
RenderOpcodes(ln, ops) ==
    IF \E n \in 1..Len(ops) : Appends(ops[n]) THEN JoinPieces(ln, ops, 1) ELSE Nbsp

\* Mutant: the budget test is `>=`.
FormatLineCallTightBudget(ln, other, changed) ==
    IF ~changed \/ ln = <<>> \/ other = <<>>
    THEN [aligned |-> FALSE, opcodes |-> <<>>, result |-> PlainLine(ln)]
    ELSE IF Len(ln) + Len(other) >= INLINE_HIGHLIGHT_LIMIT
    THEN [aligned |-> FALSE, opcodes |-> <<>>, result |-> PlainLine(ln)]
    ELSE Only({[aligned |-> TRUE, opcodes |-> ops, result |-> RenderOpcodes(ln, ops)] :
               ops \in {compute_inline_diff(ln, other)}})

\* The call: whether it reached compute_inline_diff, its local `opcodes`
\* (never assigned on the two early returns) and what it returns.
FormatLineCall(ln, other, changed) ==
    IF ~changed \/ ln = <<>> \/ other = <<>>
    THEN [aligned |-> FALSE, opcodes |-> <<>>, result |-> PlainLine(ln)]
    ELSE IF Len(ln) + Len(other) > INLINE_HIGHLIGHT_LIMIT
    THEN [aligned |-> FALSE, opcodes |-> <<>>, result |-> PlainLine(ln)]
    ELSE Only({[aligned |-> TRUE, opcodes |-> ops, result |-> RenderOpcodes(ln, ops)] :
               ops \in {compute_inline_diff(ln, other)}})

format_line_with_inline_diff(ln, other, changed) == FormatLineCall(ln, other, changed).result

(***************************************************************************)
(* format_lines: one record per <div class="line ..."> it emits.           *)
(***************************************************************************)
\* Mutant: the range is closed at its end.
ContainsClosed(chunk, i, is_left) ==
    IF is_left THEN chunk.start_a <= i /\ i <= chunk.end_a
    ELSE chunk.start_b <= i /\ i <= chunk.end_b

\* The chunk's range on the side being formatted contains i.
Contains(chunk, i, is_left) ==
    IF is_left THEN chunk.start_a <= i /\ i < chunk.end_a
    ELSE chunk.start_b <= i /\ i < chunk.end_b

\* The first loop over the chunks: the tag of the first chunk that contains i
\* (`break`), None when there is none.
ChunkTag(cs, i, is_left) ==
    LET hits == {n \in 1..Len(cs) : Contains(cs[n], i, is_left)}
    IN  IF hits = {} THEN NoTag ELSE cs[Min(hits)].tag

\* f"chunk-{chunk.tag}", "" when no chunk contains the line.
ChunkClass(tag) ==
    IF tag = NoTag THEN ""
    ELSE CASE tag = "replace" -> "chunk-replace"
           [] tag = "insert" -> "chunk-insert"
           [] tag = "delete" -> "chunk-delete"
           [] OTHER -> "chunk-equal"

\* The second loop: the first replace chunk that contains i pairs line i with
\* other_lines[other_idx] when 0 <= other_idx < len(other_lines); the loop's
\* `else` is reached when no such chunk exists.
FormattedLine(lines, other_lines, cs, i, is_left) ==
    LET ln == lines[i + 1]
        hits == {n \in 1..Len(cs) : Contains(cs[n], i, is_left) /\ cs[n].tag = "replace"}
    IN  IF ChunkTag(cs, i, is_left) = "replace"
        THEN IF hits = {} THEN PlainLine(ln)
             ELSE LET chunk == cs[Min(hits)]
                      offset == i - (IF is_left THEN chunk.start_a ELSE chunk.start_b)
                      other_idx == (IF is_left THEN chunk.start_b ELSE chunk.start_a) + offset
                  IN  IF 0 <= other_idx /\ other_idx < Len(other_lines)
                      THEN Only({format_line_with_inline_diff(ln, other, TRUE) :
                                 other \in {other_lines[other_idx + 1]}})
                      ELSE PlainLine(ln)
        ELSE PlainLine(ln)

format_lines(lines, other_lines, cs, is_left) ==
    [r \in 1..Len(lines) |->
        [chunk_class |-> ChunkClass(ChunkTag(cs, r - 1, is_left)),
         data_line |-> r - 1,
         line_num |-> r,
         line_content |-> FormattedLine(lines, other_lines, cs, r - 1, is_left)]]

(***************************************************************************)
(* check_file_limits.                                                      *)
(***************************************************************************)
LINE_LENGTH_LIMIT == 8 * 1024

\* Mutant: the length test is `>=`.
check_file_limits_tight(t) ==
    IF \E p \in 1..Len(t) : t[p] = 0
    THEN [ok |-> FALSE, error |-> "binary", line |-> 0, length |-> 0]
    ELSE LET lines == splitlines(t)
             long == {i \in 1..Len(lines) : Len(lines[i]) >= 8 * 1024}
         IN  IF long = {} THEN [ok |-> TRUE, error |-> "", line |-> 0, length |-> 0]
             ELSE [ok |-> FALSE, error |-> "line too long", line |-> Min(long),
                   length |-> Len(lines[Min(long)])]

\* The outcome: True, or False with the error that was printed.
check_file_limits(t) ==
    IF \E p \in 1..Len(t) : t[p] = 0
    THEN [ok |-> FALSE, error |-> "binary", line |-> 0, length |-> 0]
    ELSE LET lines == splitlines(t)
             long == {i \in 1..Len(lines) : Len(lines[i]) > LINE_LENGTH_LIMIT}
         IN  IF long = {} THEN [ok |-> TRUE, error |-> "", line |-> 0, length |-> 0]
             ELSE [ok |-> FALSE, error |-> "line too long", line |-> Min(long),
                   length |-> Len(lines[Min(long)])]

(***************************************************************************)
(* The specifications.  Spec: compute_inline_diff(text_a, text_b) over the *)
(* characters, or compute_diff(text_a, text_b) over the lines and then     *)
(* generate_html's two format_lines calls, as main() chains them.          *)
(* SpecLimits: check_file_limits.  SpecInline:                             *)
(* format_line_with_inline_diff.                                           *)
(***************************************************************************)
\* The variables of the calls a specification does not make.
AlignIdle ==
    /\ text_a = <<>> /\ text_b = <<>>
    /\ opcodes = <<>> /\ line_opcodes = <<>> /\ chunks = <<>>
    /\ left_content = <<>> /\ right_content = <<>>

LimitsIdle == text = <<>> /\ verdict = [ok |-> TRUE, error |-> "", line |-> 0, length |-> 0]

InlineIdle ==
    /\ line = <<>> /\ other_line = <<>> /\ is_changed = FALSE
    /\ formatted = [aligned |-> FALSE, opcodes |-> <<>>, result |-> <<>>]

MaxLen == 3

Sigma == {97, 98, LF}

StringsUpTo(n) == UNION {[1..k -> Sigma] : k \in 0..n}

\* n lines `first`, `first + 1`, ..., each of one character and ended by "\n".
NumberedLines(first, n) ==
    [p \in 1..(2 * n) |-> IF p % 2 = 0 THEN LF ELSE first + (p - 1) \div 2]

\* Strings on both sides of the length at which autojunk sets in: one repeated
\* character, distinct characters, one repeated line, distinct lines, and a few
\* repeated characters in front of distinct ones.
LongStrings ==
    UNION {{Rep(97, n),
            [p \in 1..n |-> 1000 + p],
            <<1000>> \o Rep(97, 4) \o [p \in 1..(n - 5) |-> 1000 + p]}
           : n \in {AutojunkMinLen - 1, AutojunkMinLen}}
    \cup UNION {{NumberedLines(2000, n), [p \in 1..(2 * n) |-> IF p % 2 = 0 THEN LF ELSE 97],
                 NumberedLines(2000, 1) \o Rep(LF, 4) \o NumberedLines(2001, n - 5)}
                : n \in {AutojunkMinLen - 1, AutojunkMinLen}}

\* The n distinct lines with four equal lines put in after the first h of them.
LinesWithBlock(n, h) ==
    NumberedLines(2000, h) \o [p \in 1..8 |-> IF p % 2 = 0 THEN LF ELSE 97]
    \o NumberedLines(2000 + h, n - h)

LongPairs ==
    {<<x, x>> : x \in LongStrings}
    \cup {<<x, y>> : x \in {<<97, 97>>, <<LF, LF>>, <<97, LF, 97>>}, y \in LongStrings}
    \cup {<<y, x>> : x \in {<<97, 97>>, <<LF, LF>>}, y \in LongStrings}
    \cup UNION {{<<NumberedLines(2000, AutojunkMinLen), LinesWithBlock(AutojunkMinLen, h)>>,
                 <<LinesWithBlock(AutojunkMinLen, h), NumberedLines(2000, AutojunkMinLen)>>}
                : h \in {0, AutojunkMinLen \div 2, AutojunkMinLen}}

\* "\n".join(ls)
RECURSIVE JoinLines(_)
JoinLines(ls) ==
    IF ls = <<>> THEN <<>>
    ELSE IF Len(ls) = 1 THEN ls[1]
    ELSE ls[1] \o <<LF>> \o JoinLines(Tail(ls))

MaxLines == 3

LineChoices == {<<>>, <<97>>, <<98>>}

LineTexts == {JoinLines(ls) : ls \in UNION {[1..k -> LineChoices] : k \in 0..MaxLines}}

Init ==
    /\ \/ text_a \in StringsUpTo(MaxLen) /\ text_b \in StringsUpTo(MaxLen)
       \/ text_a \in LineTexts /\ text_b \in LineTexts
       \/ \E p \in LongPairs : text_a = p[1] /\ text_b = p[2]
    /\ pc = "start"
    /\ opcodes = <<>> /\ line_opcodes = <<>> /\ chunks = <<>>
    /\ left_content = <<>> /\ right_content = <<>>
    /\ LimitsIdle /\ InlineIdle

ComputeInlineDiff ==
    /\ pc = "start"
    /\ opcodes' = compute_inline_diff(text_a, text_b)
    /\ pc' = "compute_inline_diff"
    /\ UNCHANGED <<text_a, text_b, line_opcodes, chunks, left_content, right_content,
                   text, verdict, line, other_line, is_changed, formatted>>

ComputeDiff ==
    /\ pc = "start"
    /\ line_opcodes' = LineOpcodes(text_a, text_b)
    /\ chunks' = compute_diff(text_a, text_b)
    /\ pc' = "compute_diff"
    /\ UNCHANGED <<text_a, text_b, opcodes, left_content, right_content,
                   text, verdict, line, other_line, is_changed, formatted>>

GenerateHtml ==
    /\ pc = "compute_diff"
    /\ \E la \in {splitlines(text_a)}, lb \in {splitlines(text_b)} :
          /\ left_content' = format_lines(la, lb, chunks, TRUE)
          /\ right_content' = format_lines(lb, la, chunks, FALSE)
    /\ pc' = "generate_html"
    /\ UNCHANGED <<text_a, text_b, opcodes, line_opcodes, chunks,
                   text, verdict, line, other_line, is_changed, formatted>>

Next == ComputeInlineDiff \/ ComputeDiff \/ GenerateHtml

Spec == Init /\ [][Next]_vars

(***************************************************************************)
(* SpecLimits: check_file_limits on texts made of runs of "a" whose lengths *)
(* lie around LINE_LENGTH_LIMIT, each followed by nothing, a line break or *)
(* a null character.                                                       *)
(***************************************************************************)
MaxSegments == 2

SegmentLengths == {0, 1, LINE_LENGTH_LIMIT, LINE_LENGTH_LIMIT + 1}

SegmentEnds == {<<>>, <<LF>>, <<CR, LF>>, <<0>>}

Segments == {Rep(97, n) \o e : n \in SegmentLengths, e \in SegmentEnds}

RECURSIVE Concat(_)
Concat(ss) == IF ss = <<>> THEN <<>> ELSE ss[1] \o Concat(Tail(ss))

LimitTexts == {Concat(ss) : ss \in UNION {[1..k -> Segments] : k \in 0..MaxSegments}}

LimitsInit ==
    /\ text \in LimitTexts
    /\ verdict = [ok |-> TRUE, error |-> "", line |-> 0, length |-> 0]
    /\ pc = "start"
    /\ AlignIdle /\ InlineIdle

CheckFileLimits ==
    /\ pc = "start"
    /\ verdict' = check_file_limits(text)
    /\ pc' = "check_file_limits"
    /\ UNCHANGED <<text, text_a, text_b, opcodes, line_opcodes, chunks, left_content,
                   right_content, line, other_line, is_changed, formatted>>

LimitsNext == CheckFileLimits

SpecLimits == LimitsInit /\ [][LimitsNext]_vars

(***************************************************************************)
(* SpecInline: format_line_with_inline_diff on short lines that hold       *)
(* characters html.escape rewrites, and on pairs of lines whose combined   *)
(* length lies around INLINE_HIGHLIGHT_LIMIT.                              *)
(***************************************************************************)
MaxInline == 2

InlineSigma == {97, 98, 60, 38}

InlineStrings == UNION {[1..k -> InlineSigma] : k \in 0..MaxInline}

BudgetTotals ==
    {INLINE_HIGHLIGHT_LIMIT - 1, INLINE_HIGHLIGHT_LIMIT, INLINE_HIGHLIGHT_LIMIT + 1}

\* Pairs of combined length t: one short line against a long one, either way
\* round, and two long lines that differ in their last character.
BudgetPairs ==
    UNION {{<<(<<98>>), Rep(97, t - 1)>>,
            <<Rep(97, t - 1), (<<98>>)>>,
            <<Rep(97, t - 2) \o <<60>>, (<<97>>)>>,
            <<Rep(97, t \div 2) \o <<98>>, Rep(97, t - (t \div 2) - 1)>>}
           : t \in BudgetTotals}

InlineInit ==
    /\ \/ line \in InlineStrings /\ other_line \in InlineStrings
       \/ \E p \in BudgetPairs : line = p[1] /\ other_line = p[2]
    /\ is_changed \in BOOLEAN
    /\ formatted = [aligned |-> FALSE, opcodes |-> <<>>, result |-> <<>>]
    /\ pc = "start"
    /\ AlignIdle /\ LimitsIdle

FormatLine ==
    /\ pc = "start"
    /\ formatted' = FormatLineCall(line, other_line, is_changed)
    /\ pc' = "format_line_with_inline_diff"
    /\ UNCHANGED <<line, other_line, is_changed, text_a, text_b, opcodes, line_opcodes,
                   chunks, left_content, right_content, text, verdict>>

InlineNext == FormatLine

SpecInline == InlineInit /\ [][InlineNext]_vars

(***************************************************************************)
(* Properties.                                                             *)
(***************************************************************************)
lines_a == splitlines(text_a)

lines_b == splitlines(text_b)

\* The operation list ops partitions [0, la) and [0, lb): it starts at 0 on
\* both sides, each operation starts where the previous one ends, the last one
\* ends at la and lb, and no operation is empty on both sides.
IsPartition(ops, la, lb) ==
    /\ ops = <<>> => la = 0 /\ lb = 0
    /\ ops # <<>> => /\ ops[1][2] = 0 /\ ops[1][4] = 0
                     /\ ops[Len(ops)][3] = la /\ ops[Len(ops)][5] = lb
    /\ \A n \in 2..Len(ops) : ops[n][2] = ops[n - 1][3] /\ ops[n][4] = ops[n - 1][5]
    /\ \A n \in 1..Len(ops) :
          /\ ops[n][2] <= ops[n][3] /\ ops[n][4] <= ops[n][5]
          /\ ops[n][2] < ops[n][3] \/ ops[n][4] < ops[n][5]

\* C1: the operation list of the aligner is a total partition of both
\* sequences, for the characters (compute_inline_diff) and for the lines
\* (compute_diff, before 'equal' is filtered out).
C1_Partition ==
    /\ pc = "compute_inline_diff" => IsPartition(opcodes, Len(text_a), Len(text_b))
    /\ pc = "compute_diff" => IsPartition(line_opcodes, Len(lines_a), Len(lines_b))

\* An alignment of three operations or more with a replace among them.
C1_Witness ==
    /\ pc = "compute_inline_diff"
    /\ Len(opcodes) >= 3
    /\ \E n \in 1..Len(opcodes) : opcodes[n][1] = "replace"

\* C2: a sequence aligned with itself gives no chunk (compute_diff) and, when
\* it is not empty, exactly one 'equal' operation over the whole of it
\* (compute_inline_diff).
C2_Identity ==
    text_a = text_b =>
        /\ pc = "compute_diff" => chunks = <<>>
        /\ pc = "compute_inline_diff" /\ text_a # <<>> =>
              opcodes = <<(<<"equal", 0, Len(text_a), 0, Len(text_a)>>)>>

\* A long string of one repeated character aligned with itself.
C2_Witness ==
    /\ pc = "compute_inline_diff"
    /\ text_a = text_b
    /\ Len(text_a) >= 200
    /\ Cardinality(Range(text_a)) = 1

\* The shape the tag of an operation over the sequences a and b demands.
ShapeOK(op, a, b) ==
    LET i1 == op[2]
        i2 == op[3]
        j1 == op[4]
        j2 == op[5]
    IN  CASE op[1] = "equal" ->
                /\ i2 - i1 = j2 - j1
                /\ \A k \in 0..(i2 - i1 - 1) : a[i1 + k + 1] = b[j1 + k + 1]
          [] op[1] = "insert" -> i1 = i2 /\ j1 < j2
          [] op[1] = "delete" -> j1 = j2 /\ i1 < i2
          [] op[1] = "replace" -> i1 < i2 /\ j1 < j2
          [] OTHER -> FALSE

\* C3: every operation obeys the shape of its tag, and no chunk of
\* compute_diff is tagged 'equal'.
C3_Shapes ==
    /\ pc = "compute_inline_diff" =>
          \A n \in 1..Len(opcodes) : ShapeOK(opcodes[n], text_a, text_b)
    /\ pc = "compute_diff" =>
          /\ \A n \in 1..Len(line_opcodes) : ShapeOK(line_opcodes[n], lines_a, lines_b)
          /\ \A n \in 1..Len(chunks) : chunks[n].tag \in {"insert", "delete", "replace"}

\* A line alignment that holds an equal, a delete and an insert operation.
C3_Witness ==
    /\ pc = "compute_diff"
    /\ {"equal", "delete", "insert"} \subseteq {line_opcodes[n][1] : n \in 1..Len(line_opcodes)}

\* Longest-matching-block recursion as the claim states it, with every
\* element of b taking part.  RunLen: the length of the common run that
\* starts at a[i], b[j] inside the region.
RunLen(a, b, i, j, ahi, bhi) ==
    LET room == IF ahi - i < bhi - j THEN ahi - i ELSE bhi - j
        fail == {s \in 0..(room - 1) : a[i + s + 1] # b[j + s + 1]}
    IN  IF fail = {} THEN room ELSE Min(fail)

\* The places in the region where a common block starts: a pair of equal
\* elements that no pair of equal elements precedes inside the region.
RunStarts(a, b, alo, ahi, blo, bhi) ==
    {ij \in (alo..(ahi - 1)) \X (blo..(bhi - 1)) :
        /\ a[ij[1] + 1] = b[ij[2] + 1]
        /\ \/ ij[1] = alo
           \/ ij[2] = blo
           \/ a[ij[1]] # b[ij[2]]}

RECURSIVE BlockRecursion(_, _, _, _, _, _)
BlockRecursion(a, b, alo, ahi, blo, bhi) ==
    LET starts == RunStarts(a, b, alo, ahi, blo, bhi)
    IN  IF starts = {} THEN <<>>
        ELSE LET size == Max({RunLen(a, b, ij[1], ij[2], ahi, bhi) : ij \in starts})
                 longest == {ij \in starts : RunLen(a, b, ij[1], ij[2], ahi, bhi) = size}
                 i == Min({ij[1] : ij \in longest})
                 j == Min({ij[2] : ij \in {x \in longest : x[1] = i}})
             IN  BlockRecursion(a, b, alo, i, blo, j)
                 \o <<(<<i, j, size>>)>>
                 \o BlockRecursion(a, b, i + size, ahi, j + size, bhi)

\* The blocks of the recursion, adjacent ones merged.
ReferenceBlocks(a, b) ==
    MergeAdjacent(BlockRecursion(a, b, 0, Len(a), 0, Len(b)), 1, <<0, 0, 0>>, <<>>)

\* The 'equal' operations of an operation list, as <<i, j, size>> blocks.
RECURSIVE EqualBlocks(_, _)
EqualBlocks(ops, n) ==
    IF n > Len(ops) THEN <<>>
    ELSE (IF ops[n][1] = "equal" THEN <<(<<ops[n][2], ops[n][4], ops[n][3] - ops[n][2]>>)>>
          ELSE <<>>) \o EqualBlocks(ops, n + 1)

\* C4: the 'equal' operations are exactly the blocks of longest-matching-block
\* recursion (longest block first, then smallest start in a, then smallest
\* start in b; adjacent blocks merged), for sequences of every length and
\* with no element of b left out of the matching.
C4_LongestBlockRecursion ==
    /\ pc = "compute_inline_diff" =>
          EqualBlocks(opcodes, 1) = ReferenceBlocks(text_a, text_b)
    /\ pc = "compute_diff" =>
          EqualBlocks(line_opcodes, 1) = ReferenceBlocks(lines_a, lines_b)

\* The same statement for a second sequence in which no element is popular
\* (it has fewer than 200 elements, or none of them occurs more than
\* len // 100 + 1 times).
C4_WithoutPopular ==
    /\ pc = "compute_inline_diff" /\ Popular(text_b) = {} =>
          EqualBlocks(opcodes, 1) = ReferenceBlocks(text_a, text_b)
    /\ pc = "compute_diff" /\ Popular(lines_b) = {} =>
          EqualBlocks(line_opcodes, 1) = ReferenceBlocks(lines_a, lines_b)

\* `long` is `short` with a block of k elements put in at position p.
InsertedAt(short, long, p, k) ==
    /\ Len(long) = Len(short) + k
    /\ \A r \in 1..p : long[r] = short[r]
    /\ \A r \in (p + 1)..Len(short) : long[r + k] = short[r]

\* The lines of `short` are pairwise distinct and none of the k lines put in
\* at p occurs among them.
FreshBlock(short, long, p, k) ==
    /\ \A r, q \in 1..Len(short) : short[r] = short[q] => r = q
    /\ \A r \in (p + 1)..(p + k) : long[r] \notin Range(short)

\* C5: one text is the other with one block of k >= 1 new lines put in at line
\* p of pairwise distinct lines: compute_diff returns exactly one chunk, an
\* insert (the longer text is b) or a delete (it is a), over [p, p + k) on the
\* longer side and [p, p) on the shorter.
C5_SingleBlock ==
    pc = "compute_diff" =>
        /\ \A p \in 0..Len(lines_a) :
              LET k == Len(lines_b) - Len(lines_a)
              IN  k >= 1 /\ InsertedAt(lines_a, lines_b, p, k)
                         /\ FreshBlock(lines_a, lines_b, p, k)
                  => chunks = <<DiffChunk("insert", p, p, p, p + k)>>
        /\ \A p \in 0..Len(lines_b) :
              LET k == Len(lines_a) - Len(lines_b)
              IN  k >= 1 /\ InsertedAt(lines_b, lines_a, p, k)
                         /\ FreshBlock(lines_b, lines_a, p, k)
                  => chunks = <<DiffChunk("delete", p, p + k, p, p)>>

\* A new line put in between the two lines of the other text.
C5_Witness ==
    /\ pc = "compute_diff"
    /\ Len(lines_a) = 2
    /\ InsertedAt(lines_a, lines_b, 1, 1)
    /\ FreshBlock(lines_a, lines_b, 1, 1)

\* s holds the opening marker of a 'changed' run.
HasMarker(s) ==
    \E p \in 1..(Len(s) - Len(SpanOpen) + 1) :
        s[p] = SpanOpen[1] /\ SubSeq(s, p, p + Len(SpanOpen) - 1) = SpanOpen

\* The positions of s that a marker (opening or closing) covers.
MarkerPositions(s) ==
    UNION {{q \in p..(p + Len(m) - 1) :
                p + Len(m) - 1 <= Len(s) /\ SubSeq(s, p, p + Len(m) - 1) = m}
           : p \in {x \in 1..Len(s) : s[x] = 60}, m \in {SpanOpen, SpanClose}}

\* s with its markers taken out.
StripMarkers(s) ==
    LET keep == Ascending((1..Len(s)) \ MarkerPositions(s), 1, Len(s))
    IN  [r \in 1..Len(keep) |-> s[keep[r]]]

\* The records of one side: the side's lines, the other side's, the side.
SideOK(content, lines, is_left) ==
    /\ Len(content) = Len(lines)
    /\ \A r \in 1..Len(lines) :
          LET i == r - 1
              holding == {n \in 1..Len(chunks) :
                             IF is_left
                             THEN chunks[n].start_a <= i /\ i < chunks[n].end_a
                             ELSE chunks[n].start_b <= i /\ i < chunks[n].end_b}
              rec == content[r]
          IN  /\ rec.data_line = i /\ rec.line_num = i + 1
              /\ StripMarkers(rec.line_content)
                    = (IF lines[r] = <<>> THEN Nbsp ELSE escape(lines[r]))
              /\ Cardinality(holding) <= 1
              /\ holding = {} => rec.chunk_class = ""
              /\ \A n \in holding :
                    rec.chunk_class = ChunkClass(chunks[n].tag)
                    /\ (chunks[n].tag # "replace" => ~HasMarker(rec.line_content))
              /\ holding = {} => ~HasMarker(rec.line_content)

\* C9: format_lines emits one record per line of its side, in input order,
\* indexed 0..n-1, blank lines included; at most one chunk holds a line, the
\* record is classified by that chunk's tag (not at all when there is none),
\* and a line that is not classified 'replace' carries no 'changed' marker.
C9_OneRecordPerLine ==
    pc = "generate_html" =>
        /\ SideOK(left_content, lines_a, TRUE)
        /\ SideOK(right_content, lines_b, FALSE)

\* Two chunks, a blank line on the left and a marker on the right.
C9_Witness ==
    /\ pc = "generate_html"
    /\ Len(chunks) >= 2
    /\ \E r \in 1..Len(lines_a) : lines_a[r] = <<>>
    /\ \E r \in 1..Len(right_content) : HasMarker(right_content[r].line_content)

\* The lines of a replace chunk that lie past the chunk's length on the other
\* side are rendered plain; `content` and `lines` are those of the side.
ExhaustedPlain(content, lines, is_left) ==
    \A n \in 1..Len(chunks) : \A r \in 1..Len(lines) :
        LET c == chunks[n]
            i == r - 1
            this_start == IF is_left THEN c.start_a ELSE c.start_b
            this_end == IF is_left THEN c.end_a ELSE c.end_b
            other_len == IF is_left THEN c.end_b - c.start_b ELSE c.end_a - c.start_a
        IN  c.tag = "replace" /\ this_start <= i /\ i < this_end /\ i - this_start >= other_len
            => /\ ~HasMarker(content[r].line_content)
               /\ content[r].line_content = (IF lines[r] = <<>> THEN Nbsp ELSE escape(lines[r]))

\* C8: inside a replace chunk, a line whose offset reaches the chunk's length
\* on the other side is rendered with no inline highlighting, whatever lines
\* follow the chunk on the other side.
C8_ExhaustedSidePlain ==
    pc = "generate_html" =>
        /\ ExhaustedPlain(left_content, lines_a, TRUE)
        /\ ExhaustedPlain(right_content, lines_b, FALSE)

\* C6: check_file_limits succeeds exactly when the text holds no null
\* character and no line longer than 8192; with a null character the failure
\* is the binary one even beside a line that is too long; otherwise it is the
\* line-length one and reports the first line (counted from 1) longer than
\* 8192, with that line's length.
C6_Limits ==
    pc = "check_file_limits" =>
        LET lines == splitlines(text)
            binary == 0 \in Range(text)
            over == {r \in 1..Len(lines) : Len(lines[r]) >= 8193}
        IN  /\ verdict.ok <=> (~binary /\ over = {})
            /\ binary => verdict.error = "binary"
            /\ ~binary /\ over # {} =>
                  /\ verdict.error = "line too long"
                  /\ verdict.line \in over
                  /\ \A r \in over : verdict.line <= r
                  /\ verdict.length = Len(lines[verdict.line])

\* A first line of exactly 8192 characters passes and the second, of 8193, is
\* the one reported.
C6_Witness ==
    /\ pc = "check_file_limits"
    /\ verdict.error = "line too long"
    /\ verdict.line = 2
    /\ verdict.length = 8193
    /\ Len(splitlines(text)[1]) = 8192

\* The case in which format_line_with_inline_diff may align the two lines.
WithinBudget ==
    is_changed /\ line # <<>> /\ other_line # <<>> /\ Len(line) + Len(other_line) <= 20480

\* C7: character alignment runs, and a 'changed' marker can appear, only when
\* is_changed holds, both lines are non-empty and their combined length is at
\* most 20480; it does run then; in every other case the result is the
\* escaped whole line without a marker, or the placeholder for an empty line.
C7_Budget ==
    pc = "format_line_with_inline_diff" =>
        /\ formatted.aligned <=> WithinBudget
        /\ HasMarker(formatted.result) => WithinBudget
        /\ ~WithinBudget =>
              formatted.result = (IF line = <<>> THEN Nbsp ELSE escape(line))

\* A pair of combined length exactly 20480 that is aligned and marked.
C7_Witness ==
    /\ pc = "format_line_with_inline_diff"
    /\ Len(line) + Len(other_line) = 20480
    /\ formatted.aligned
    /\ HasMarker(formatted.result)

\* The characters of `line` in the ranges of the operations tagged in `tags`,
\* in order.
CharsOf(ops, tags) ==
    LET at == {p \in 1..Len(line) :
                  \E n \in 1..Len(ops) : ops[n][1] \in tags /\ ops[n][2] < p /\ p <= ops[n][3]}
        asc == Ascending(at, 1, Len(line))
    IN  [r \in 1..Len(asc) |-> line[asc[r]]]

\* The text of s inside its markers, and the text outside them.
TextInside(s, inside) ==
    LET opens == {p \in 1..(Len(s) - Len(SpanOpen) + 1) :
                     s[p] = 60 /\ SubSeq(s, p, p + Len(SpanOpen) - 1) = SpanOpen}
        closes == {p \in 1..(Len(s) - Len(SpanClose) + 1) :
                      s[p] = 60 /\ SubSeq(s, p, p + Len(SpanClose) - 1) = SpanClose}
        within(p) == Cardinality({o \in opens : o < p}) > Cardinality({c \in closes : c < p})
        at == {p \in (1..Len(s)) \ MarkerPositions(s) : within(p) = inside}
        asc == Ascending(at, 1, Len(s))
    IN  [r \in 1..Len(asc) |-> s[asc[r]]]

\* What the claim says each operation contributes.
RECURSIVE Concatenation(_, _)
Concatenation(ops, n) ==
    IF n > Len(ops) THEN <<>>
    ELSE LET part == escape(SubSeq(line, ops[n][2] + 1, ops[n][3]))
         IN  (CASE ops[n][1] = "equal" -> part
                [] ops[n][1] \in {"replace", "delete"} -> SpanOpen \o part \o SpanClose
                [] OTHER -> <<>>)
             \o Concatenation(ops, n + 1)

\* C10: when the alignment runs, the result is the concatenation over the
\* operations of the escaped slice of `line` (bare for equal, in a marker for
\* replace and delete, nothing for insert): without its markers it is the
\* escaped line, the text inside markers is that of the replace and delete
\* ranges, the text outside that of the equal ranges, and it is never the
\* placeholder.
C10_Rendering ==
    pc = "format_line_with_inline_diff" /\ formatted.aligned =>
        /\ formatted.result = Concatenation(formatted.opcodes, 1)
        /\ StripMarkers(formatted.result) = escape(line)
        /\ TextInside(formatted.result, TRUE)
              = escape(CharsOf(formatted.opcodes, {"replace", "delete"}))
        /\ TextInside(formatted.result, FALSE) = escape(CharsOf(formatted.opcodes, {"equal"}))
        /\ formatted.result # Nbsp

\* An alignment with an equal, a delete and an insert operation on a line
\* that holds a character html.escape rewrites.
C10_Witness ==
    /\ pc = "format_line_with_inline_diff"
    /\ formatted.aligned
    /\ {"equal", "delete", "insert"}
          \subseteq {formatted.opcodes[n][1] : n \in 1..Len(formatted.opcodes)}
    /\ 60 \in Range(line)

====
